---- MODULE Spec2Model ----
(***************************************************************************)
(* The block chain of src/main.go: Blockchain.AddBlock, the four statistic *)
(* goroutines of calculateBlockStats, markBlocksWithOutliers, calculateHash *)
(* and the background saveBlock.                                            *)
(*                                                                         *)
(* float64 is modelled as fixed point with Scale units per 1.0; NaN is a    *)
(* distinguished value.  Every access of a statistic goroutine to memory    *)
(* that another goroutine of the same AddBlock writes is one step.          *)
(***************************************************************************)
EXTENDS Integers, Sequences, FiniteSets, TLC

(* ------------------------------ bounds -------------------------------- *)
\* longest chain explored (genesis included)
MaxChain == 3
\* longest batch handed to AddBlock
MaxLen == 2
\* samples are the whole numbers 0..MaxVal
MaxVal == 1
\* time.Now().Unix() ranges over 0..MaxTime
MaxTime == 1
\* longest chain explored with the longer batches of SpecBatch (genesis included)
BatchChain == 2

(* ------------------------------ float64 ------------------------------- *)
Scale == 100
NaN == 0 - 1000000000

F(v) == v * Scale

\* a / float64(n) for a >= 0; 0.0/0 is NaN
FDiv(a, n) == IF a = NaN \/ n = 0 THEN NaN ELSE (2 * a + n) \div (2 * n)

RECURSIVE SqrtIter(_, _, _)
SqrtIter(x, lo, hi) ==
    IF lo >= hi THEN lo
    ELSE LET mid == (lo + hi + 1) \div 2
         IN  IF mid * mid <= x THEN SqrtIter(x, mid, hi) ELSE SqrtIter(x, lo, mid - 1)

\* math.Sqrt of a value held in Scale*Scale units, result in Scale units
FSqrt(x) == IF x = NaN THEN NaN ELSE SqrtIter(x, 0, IF x < 46340 THEN x ELSE 46340)

FAdd(a, b) == IF a = NaN \/ b = NaN THEN NaN ELSE a + b
FSub(a, b) == IF a = NaN \/ b = NaN THEN NaN ELSE a - b
FLess(a, b) == a # NaN /\ b # NaN /\ a < b

(* ------------------------- the batches of samples --------------------- *)
Samples == {F(v) : v \in 0..MaxVal}
Batches == UNION {[1..n -> Samples] : n \in 0..MaxLen}

(* --------------------------- fmt.Sprintf ------------------------------ *)
RECURSIVE FracDigits(_, _)
FracDigits(k, place) ==
    IF place = 0 THEN ""
    ELSE ToString((k \div place) % 10) \o FracDigits(k, place \div 10)

RECURSIVE Zeros(_)
Zeros(m) == IF m <= 1 THEN "" ELSE "0" \o Zeros(m \div 10)

\* %f: six decimals
FmtF(x) ==
    IF x = NaN THEN "NaN"
    ELSE LET a == IF x < 0 THEN 0 - x ELSE x
         IN  (IF x < 0 THEN "-" ELSE "") \o ToString(a \div Scale) \o "."
             \o FracDigits(a % Scale, Scale \div 10) \o Zeros(1000000 \div Scale)

RECURSIVE Strip(_, _)
Strip(k, place) ==
    IF k = 0 \/ place = 0 THEN ""
    ELSE ToString((k \div place) % 10) \o Strip(k % place, place \div 10)

\* %v of a float64: the shortest decimal
FmtV(x) ==
    IF x = NaN THEN "NaN"
    ELSE LET a == IF x < 0 THEN 0 - x ELSE x
         IN  (IF x < 0 THEN "-" ELSE "") \o ToString(a \div Scale)
             \o (IF a % Scale = 0 THEN "" ELSE "." \o Strip(a % Scale, Scale \div 10))

RECURSIVE FmtElems(_)
FmtElems(s) ==
    IF Len(s) = 0 THEN ""
    ELSE IF Len(s) = 1 THEN FmtV(s[1])
    ELSE FmtV(s[1]) \o " " \o FmtElems(Tail(s))

\* %v of a []float64
FmtSlice(s) == "[" \o FmtElems(s) \o "]"

(* --------------------------- pure functions --------------------------- *)
RECURSIVE SumSeq(_)
SumSeq(s) == IF Len(s) = 0 THEN 0 ELSE s[1] + SumSeq(Tail(s))

calculateMean(values) == FDiv(SumSeq(values), Len(values))

RECURSIVE SumSq(_, _)
SumSq(s, mean) ==
    IF Len(s) = 0 THEN 0
    ELSE (s[1] - mean) * (s[1] - mean) + SumSq(Tail(s), mean)

calculateVariance(values, mean) == FDiv(SumSq(values, mean), Len(values))

calculateTwoSDRange(values) ==
    LET mean == calculateMean(values)
        stdDev == FSqrt(calculateVariance(values, mean))
    IN  <<FSub(mean, IF stdDev = NaN THEN NaN ELSE 2 * stdDev),
          FAdd(mean, IF stdDev = NaN THEN NaN ELSE 2 * stdDev)>>

IsOutlier(value, lowerBound, upperBound) ==
    FLess(value, lowerBound) \/ FLess(upperBound, value)

calculateOutliers(values, lowerBound, upperBound) ==
    SelectSeq(values, LAMBDA v : IsOutlier(v, lowerBound, upperBound))

\* values[n/2-1], values[n/2] of the code are positions n/2, n/2+1 here
MedianOfSorted(values) ==
    LET n == Len(values)
    IN  IF n % 2 = 0
        THEN (values[n \div 2] + values[n \div 2 + 1]) \div 2
        ELSE values[n \div 2 + 1]

\* the digest of the text calculateHash formats
calculateHash(block) ==
    "sha256(" \o ToString(block.Index) \o ToString(block.Timestamp)
      \o FmtSlice(block.Values) \o block.PrevHash
      \o FmtF(block.Mean) \o FmtF(block.Median)
      \o FmtF(block.TwoSDLower) \o FmtF(block.TwoSDUpper)
      \o FmtSlice(block.Outliers) \o ")"

OutlierBlockHash == "OUTLITER_BLOCK_HASH"

\* mutants of MarkBlock: the test on the outliers dropped; the wrong field written
MarkBlockAlways(block) == [block EXCEPT !.Hash = OutlierBlockHash]

MarkBlockPrevHash(block) ==
    IF Len(block.Outliers) > 0 THEN [block EXCEPT !.PrevHash = OutlierBlockHash] ELSE block

\* the body of the loop of markBlocksWithOutliers
MarkBlock(block) ==
    IF Len(block.Outliers) > 0 THEN [block EXCEPT !.Hash = OutlierBlockHash] ELSE block

\* mutant of markBlocksWithOutliers: every block of the chain re-marked
markAllBlocks(c) == [i \in 1..Len(c) |-> MarkBlockAlways(c[i])]

\* for _, block := range bc.chain { ... }
markBlocksWithOutliers(c) == [i \in 1..Len(c) |-> MarkBlock(c[i])]

GenesisShell(ts) ==
    [Index |-> 0, Timestamp |-> ts, Values |-> <<>>, Hash |-> "", PrevHash |-> "",
     Mean |-> 0, Median |-> 0, TwoSDLower |-> 0, TwoSDUpper |-> 0, Outliers |-> <<>>]

NewBlockchain(ts) ==
    <<[GenesisShell(ts) EXCEPT !.Hash = calculateHash(GenesisShell(ts))]>>

\* mutant of PrevBlock: the last block read after it was re-marked
PrevBlockMarked(c) == MarkBlock(c[Len(c)])

\* prevBlock := bc.chain[len(bc.chain)-1]
PrevBlock(c) == c[Len(c)]

\* mutant of NewBlock: the index of the previous block taken over unchanged
NewBlockSameIndex(prevBlock, ts, values) ==
    [Index |-> prevBlock.Index, Timestamp |-> ts, Values |-> values, Hash |-> "",
     PrevHash |-> prevBlock.Hash, Mean |-> 0, Median |-> 0, TwoSDLower |-> 0,
     TwoSDUpper |-> 0, Outliers |-> <<>>]

\* newBlock := &Block{...}
NewBlock(prevBlock, ts, values) ==
    [Index |-> prevBlock.Index + 1, Timestamp |-> ts, Values |-> values, Hash |-> "",
     PrevHash |-> prevBlock.Hash, Mean |-> 0, Median |-> 0, TwoSDLower |-> 0,
     TwoSDUpper |-> 0, Outliers |-> <<>>]

(* ------------------------------- state -------------------------------- *)
Callers == {1, 2}

VARIABLES
    chain,      \* bc.chain: the blocks, genesis first
    mu,         \* bc.mu: 0 when free, else the caller holding it
    now,        \* the last value time.Now().Unix() returned
    pc,         \* where each caller of AddBlock is
    arg,        \* the batch each caller passed, as it was passed
    callLen,    \* len(bc.chain) when the caller entered AddBlock
    mine,       \* the position in bc.chain of the block the caller's last call added
    nb,         \* newBlock of each caller; nb.Values is the caller's backing array
    tMean,      \* goroutine 1 of calculateBlockStats
    tMedian,    \* goroutine 2
    tBand,      \* goroutine 3
    tOut,       \* goroutine 4
    pending,    \* indices of the blocks whose saveBlock goroutine has not written
    log,        \* blockchain.log: the records written, in file order
    crashed,    \* a goroutine panicked: the process is gone
    shown       \* the chain main printed (choice 2), <<>> while it has printed none

vars == <<chain, mu, now, pc, arg, callLen, mine, nb, tMean, tMedian, tBand, tOut,
          pending, log, crashed, shown>>

tasks == <<tMean, tMedian, tBand, tOut>>

MeanOff == [pc |-> "off", i |-> 0, sum |-> 0]
MedianOff == [pc |-> "off", i |-> 0, j |-> 0, tmp |-> 0]
BandOff == [pc |-> "off", i |-> 0, sum |-> 0, mean |-> 0, upper |-> 0]
OutOff == [pc |-> "off", i |-> 0, lower |-> 0, upper |-> 0, acc |-> <<>>]

Init ==
    /\ \E ts \in 0..MaxTime : chain = NewBlockchain(ts) /\ now = ts
    /\ mu = 0
    /\ pc = [c \in Callers |-> "idle"]
    /\ arg = [c \in Callers |-> <<>>]
    /\ callLen = [c \in Callers |-> 0]
    /\ mine = [c \in Callers |-> 0]
    /\ nb = [c \in Callers |-> GenesisShell(0)]
    /\ tMean = [c \in Callers |-> MeanOff]
    /\ tMedian = [c \in Callers |-> MedianOff]
    /\ tBand = [c \in Callers |-> BandOff]
    /\ tOut = [c \in Callers |-> OutOff]
    /\ pending = {}
    /\ log = <<>>
    /\ crashed = FALSE
    /\ shown = <<>>

InFlight == {c \in Callers : pc[c] \notin {"idle", "done"}}

(* ------------------------------ AddBlock ------------------------------ *)
\* a caller enters AddBlock(values) and blocks on bc.mu.Lock().  Nothing reads
\* the batch of a blocked caller, so it is drawn when Lock returns.
Call(c) ==
    /\ ~crashed
    /\ pc[c] \in {"idle", "done"}
    /\ Len(chain) + Cardinality(InFlight) < MaxChain
    /\ callLen' = [callLen EXCEPT ![c] = Len(chain)]
    /\ mine' = [mine EXCEPT ![c] = 0]
    /\ pc' = [pc EXCEPT ![c] = "lock"]
    /\ UNCHANGED <<chain, mu, now, arg, nb, tasks, pending, log, crashed, shown>>

\* mutant of CanLock: AddBlock without the mutex
CanLockAlways(c) == TRUE

\* bc.mu.Lock() returns only while no caller holds the mutex
CanLock(c) == mu = 0

\* bc.mu.Lock() returns
Lock(c) ==
    /\ ~crashed
    /\ pc[c] = "lock"
    /\ CanLock(c)
    /\ mu' = c
    /\ \E values \in Batches : arg' = [arg EXCEPT ![c] = values]
    /\ pc' = [pc EXCEPT ![c] = "new"]
    /\ UNCHANGED <<chain, now, callLen, mine, nb, tasks, pending, log, crashed, shown>>

\* prevBlock, newBlock := ...; then wg.Add(4) and the four go statements
Construct(c) ==
    /\ ~crashed
    /\ pc[c] = "new"
    /\ \E ts \in now..MaxTime :
          /\ now' = ts
          /\ nb' = [nb EXCEPT ![c] = NewBlock(PrevBlock(chain), ts, arg[c])]
    /\ tMean' = [tMean EXCEPT ![c] = [MeanOff EXCEPT !.pc = "run"]]
    /\ tMedian' = [tMedian EXCEPT ![c] = [MedianOff EXCEPT !.pc = "sort", !.i = 2, !.j = 2]]
    /\ tBand' = [tBand EXCEPT ![c] = [BandOff EXCEPT !.pc = "mean"]]
    /\ tOut' = [tOut EXCEPT ![c] = [OutOff EXCEPT !.pc = "lower"]]
    /\ pc' = [pc EXCEPT ![c] = "stats"]
    /\ UNCHANGED <<chain, mu, arg, callLen, mine, pending, log, crashed, shown>>

(* ------------------- calculateBlockStats: goroutines ------------------ *)
(* A step of a goroutine is one access to memory that another goroutine of *)
(* the same AddBlock reads or writes (an element of block.Values, or        *)
(* block.TwoSDLower/TwoSDUpper), together with the local computation and    *)
(* the writes to fields no other goroutine touches that follow it.          *)

\* go func() { block.Mean = calculateMean(block.Values) }
MeanStep(c) ==
    /\ ~crashed
    /\ pc[c] = "stats"
    /\ tMean[c].pc = "run"
    /\ LET t == tMean[c]
           values == nb[c].Values
           n == Len(values)
           sum == IF n = 0 THEN 0 ELSE t.sum + values[t.i + 1]
       IN  IF t.i + 1 < n
           THEN /\ tMean' = [tMean EXCEPT ![c] = [t EXCEPT !.i = t.i + 1, !.sum = sum]]
                /\ nb' = nb
           ELSE /\ nb' = [nb EXCEPT ![c].Mean = FDiv(sum, n)]
                /\ tMean' = [tMean EXCEPT ![c] = [MeanOff EXCEPT !.pc = "done"]]
    /\ UNCHANGED <<chain, mu, now, pc, arg, callLen, mine, tMedian, tBand, tOut,
                   pending, log, crashed, shown>>

\* mutant of NextSwap: sort.Float64s left out, the batch taken as it is
NextSwapNone(data, i, j) == [sorted |-> TRUE, i |-> i, j |-> j]

\* the insertion sort of sort.Float64s: the next (i, j) at which data[j] < data[j-1]
RECURSIVE NextSwap(_, _, _)
NextSwap(data, i, j) ==
    IF i > Len(data) THEN [sorted |-> TRUE, i |-> i, j |-> j]
    ELSE IF j > 1 /\ data[j] < data[j - 1] THEN [sorted |-> FALSE, i |-> i, j |-> j]
    ELSE NextSwap(data, i + 1, i + 1)

\* go func() { block.Median = calculateMedian(block.Values) }
MedianStep(c) ==
    /\ ~crashed
    /\ pc[c] = "stats"
    /\ LET t == tMedian[c]
           values == nb[c].Values
           s == NextSwap(values, t.i, t.j)
           swapped == [values EXCEPT ![t.j - 1] = t.tmp]
           after == NextSwap(swapped, t.i, t.j - 1)
       IN  \/ /\ t.pc = "sort"
              /\ ~s.sorted
              \* data[j], data[j-1] = data[j-1], data[j]: data[j] is written first
              /\ nb' = [nb EXCEPT ![c].Values[s.j] = values[s.j - 1]]
              /\ tMedian' = [tMedian EXCEPT ![c] =
                                [pc |-> "swap", i |-> s.i, j |-> s.j, tmp |-> values[s.j]]]
              /\ UNCHANGED crashed
           \/ /\ t.pc = "swap"
              /\ ~after.sorted
              /\ nb' = [nb EXCEPT ![c].Values = swapped]
              /\ tMedian' = [tMedian EXCEPT ![c] =
                                [pc |-> "sort", i |-> after.i, j |-> after.j, tmp |-> 0]]
              /\ UNCHANGED crashed
           \/ /\ t.pc = "swap"
              /\ after.sorted
              /\ nb' = [nb EXCEPT ![c].Values = swapped,
                                  ![c].Median = MedianOfSorted(swapped)]
              /\ tMedian' = [tMedian EXCEPT ![c] = [MedianOff EXCEPT !.pc = "done"]]
              /\ UNCHANGED crashed
           \/ /\ t.pc = "sort"
              /\ s.sorted
              /\ Len(values) > 0
              /\ nb' = [nb EXCEPT ![c].Median = MedianOfSorted(values)]
              /\ tMedian' = [tMedian EXCEPT ![c] = [MedianOff EXCEPT !.pc = "done"]]
              /\ UNCHANGED crashed
           \/ /\ t.pc = "sort"
              /\ s.sorted
              /\ Len(values) = 0
              \* n%2 == 0 and values[n/2-1] is values[-1]: index out of range
              /\ crashed' = TRUE
              /\ UNCHANGED <<nb, tMedian>>
    /\ UNCHANGED <<chain, mu, now, pc, arg, callLen, mine, tMean, tBand, tOut,
                   pending, log, shown>>

\* mutant of Twice: the band one standard deviation wide
OnceStdDev(stdDev) == stdDev

\* 2*stdDev
Twice(stdDev) == IF stdDev = NaN THEN NaN ELSE 2 * stdDev

\* go func() { block.TwoSDLower, block.TwoSDUpper = calculateTwoSDRange(block.Values) }
BandStep(c) ==
    /\ ~crashed
    /\ pc[c] = "stats"
    /\ LET t == tBand[c]
           values == nb[c].Values
           n == Len(values)
       IN  \/ /\ t.pc = "mean"
              /\ n = 0
              \* no element is read: both loops are empty and 0.0/0 is NaN
              /\ nb' = [nb EXCEPT ![c].TwoSDLower =
                            FSub(FDiv(0, 0), Twice(FSqrt(FDiv(0, 0))))]
              /\ tBand' = [tBand EXCEPT ![c] =
                              [BandOff EXCEPT !.pc = "upper",
                                  !.upper = FAdd(FDiv(0, 0), Twice(FSqrt(FDiv(0, 0))))]]
           \/ /\ t.pc = "mean"
              /\ n > 0
              /\ LET sum == t.sum + values[t.i + 1]
                 IN  tBand' = [tBand EXCEPT ![c] =
                                  IF t.i + 1 < n
                                  THEN [t EXCEPT !.i = t.i + 1, !.sum = sum]
                                  ELSE [BandOff EXCEPT !.pc = "var", !.mean = FDiv(sum, n)]]
              /\ nb' = nb
           \/ /\ t.pc = "var"
              /\ t.i + 1 < n
              /\ LET diff == values[t.i + 1] - t.mean
                 IN  tBand' = [tBand EXCEPT ![c] =
                                  [t EXCEPT !.i = t.i + 1, !.sum = t.sum + diff * diff]]
              /\ nb' = nb
           \/ /\ t.pc = "var"
              /\ t.i + 1 = n
              /\ LET diff == values[t.i + 1] - t.mean
                     stdDev == FSqrt(FDiv(t.sum + diff * diff, n))
                 IN  /\ nb' = [nb EXCEPT ![c].TwoSDLower = FSub(t.mean, Twice(stdDev))]
                     /\ tBand' = [tBand EXCEPT ![c] =
                                     [BandOff EXCEPT !.pc = "upper",
                                                     !.upper = FAdd(t.mean, Twice(stdDev))]]
           \/ /\ t.pc = "upper"
              /\ nb' = [nb EXCEPT ![c].TwoSDUpper = t.upper]
              /\ tBand' = [tBand EXCEPT ![c] = [BandOff EXCEPT !.pc = "done"]]
    /\ UNCHANGED <<chain, mu, now, pc, arg, callLen, mine, tMean, tMedian, tOut,
                   pending, log, crashed, shown>>

\* go func() { block.Outliers = calculateOutliers(block.Values, block.TwoSDLower,
\*                                                block.TwoSDUpper) }
OutStep(c) ==
    /\ ~crashed
    /\ pc[c] = "stats"
    /\ LET t == tOut[c]
           values == nb[c].Values
           n == Len(values)
       IN  \/ /\ t.pc = "lower"
              /\ tOut' = [tOut EXCEPT ![c] =
                             [t EXCEPT !.pc = "upper", !.lower = nb[c].TwoSDLower]]
              /\ nb' = nb
           \/ /\ t.pc = "upper"
              /\ n > 0
              /\ tOut' = [tOut EXCEPT ![c] =
                             [t EXCEPT !.pc = "loop", !.upper = nb[c].TwoSDUpper]]
              /\ nb' = nb
           \/ /\ t.pc = "upper"
              /\ n = 0
              /\ nb' = [nb EXCEPT ![c].Outliers = <<>>]
              /\ tOut' = [tOut EXCEPT ![c] = [OutOff EXCEPT !.pc = "done"]]
           \/ /\ t.pc = "loop"
              /\ LET value == values[t.i + 1]
                     acc == IF IsOutlier(value, t.lower, t.upper)
                            THEN Append(t.acc, value) ELSE t.acc
                 IN  IF t.i + 1 < n
                     THEN /\ tOut' = [tOut EXCEPT ![c] = [t EXCEPT !.i = t.i + 1, !.acc = acc]]
                          /\ nb' = nb
                     ELSE /\ nb' = [nb EXCEPT ![c].Outliers = acc]
                          /\ tOut' = [tOut EXCEPT ![c] = [OutOff EXCEPT !.pc = "done"]]
    /\ UNCHANGED <<chain, mu, now, pc, arg, callLen, mine, tMean, tMedian, tBand,
                   pending, log, crashed, shown>>

\* mutants of AllDone: wg.Wait() left out; wg.Wait() returns as soon as the mean
\* goroutine is done
WaitSkipped(c) == TRUE

MeanDone(c) == tMean[c].pc = "done"

\* the WaitGroup counter is 0: each of the four goroutines has called wg.Done()
AllDone(c) ==
    /\ tMean[c].pc = "done"
    /\ tMedian[c].pc = "done"
    /\ tBand[c].pc = "done"
    /\ tOut[c].pc = "done"

\* wg.Wait() returns and calculateBlockStats with it
Wait(c) ==
    /\ ~crashed
    /\ pc[c] = "stats"
    /\ AllDone(c)
    /\ pc' = [pc EXCEPT ![c] = "mark"]
    /\ UNCHANGED <<chain, mu, now, arg, callLen, mine, nb, tasks, pending, log, crashed,
                   shown>>

(* --------------------------- AddBlock, the rest ----------------------- *)
\* bc.markBlocksWithOutliers()
Mark(c) ==
    /\ ~crashed
    /\ pc[c] = "mark"
    /\ chain' = markBlocksWithOutliers(chain)
    /\ pc' = [pc EXCEPT ![c] = "hash"]
    /\ UNCHANGED <<mu, now, arg, callLen, mine, nb, tasks, pending, log, crashed, shown>>

\* newBlock.Hash = calculateHash(newBlock)
Hash(c) ==
    /\ ~crashed
    /\ pc[c] = "hash"
    /\ nb' = [nb EXCEPT ![c].Hash = calculateHash(nb[c])]
    /\ pc' = [pc EXCEPT ![c] = "append"]
    /\ UNCHANGED <<chain, mu, now, arg, callLen, mine, tasks, pending, log, crashed, shown>>

\* bc.chain = append(bc.chain, newBlock); go saveBlock(newBlock)
AppendBlock(c) ==
    /\ ~crashed
    /\ pc[c] = "append"
    /\ chain' = Append(chain, nb[c])
    /\ pending' = pending \cup {Len(chain) + 1}
    /\ mine' = [mine EXCEPT ![c] = Len(chain) + 1]
    /\ pc' = [pc EXCEPT ![c] = "unlock"]
    /\ UNCHANGED <<mu, now, arg, callLen, nb, tasks, log, crashed, shown>>

\* the deferred bc.mu.Unlock(), and AddBlock returns
Unlock(c) ==
    /\ ~crashed
    /\ pc[c] = "unlock"
    /\ mu' = 0
    /\ pc' = [pc EXCEPT ![c] = "done"]
    \* the frame of AddBlock is gone: values, newBlock and the WaitGroup with its
    \* four goroutines are out of scope
    /\ arg' = [arg EXCEPT ![c] = <<>>]
    /\ nb' = [nb EXCEPT ![c] = GenesisShell(0)]
    /\ tMean' = [tMean EXCEPT ![c] = MeanOff]
    /\ tMedian' = [tMedian EXCEPT ![c] = MedianOff]
    /\ tBand' = [tBand EXCEPT ![c] = BandOff]
    /\ tOut' = [tOut EXCEPT ![c] = OutOff]
    /\ UNCHANGED <<chain, now, callLen, mine, pending, log, crashed, shown>>

(* ------------------------------ saveBlock ----------------------------- *)
\* json.Marshal(block) of the block as it is now, appended to blockchain.log
SaveBlock(k) ==
    /\ ~crashed
    /\ k \in pending
    /\ log' = Append(log, chain[k])
    /\ pending' = pending \ {k}
    /\ UNCHANGED <<chain, mu, now, pc, arg, callLen, mine, nb, tasks, crashed, shown>>

\* os.OpenFile or WriteString fails: the error is printed, nothing is written
SaveFails(k) ==
    /\ ~crashed
    /\ k \in pending
    /\ pending' = pending \ {k}
    /\ UNCHANGED <<chain, mu, now, pc, arg, callLen, mine, nb, tasks, log, crashed, shown>>

\* one step of a caller's AddBlock
AddBlockStep(c) ==
    \/ Call(c)
    \/ Lock(c)
    \/ Construct(c)
    \/ MeanStep(c)
    \/ MedianStep(c)
    \/ BandStep(c)
    \/ OutStep(c)
    \/ Wait(c)
    \/ Mark(c)
    \/ Hash(c)
    \/ AppendBlock(c)
    \/ Unlock(c)

(* Spec: independent callers of AddBlock.  The saveBlock goroutines read the *)
(* chain and write only the log; Spec leaves them unscheduled.              *)
Next == \E c \in Callers : AddBlockStep(c)

Spec == Init /\ [][Next]_vars

(* SpecLog: the program as main runs it, one generator goroutine calling     *)
(* AddBlock, with the saveBlock goroutines scheduled.                        *)
Generator == CHOOSE c \in Callers : \A d \in Callers : c <= d

NextLog ==
    \/ AddBlockStep(Generator)
    \/ \E k \in 1..MaxChain : SaveBlock(k)
    \/ \E k \in 1..MaxChain : SaveFails(k)

SpecLog == Init /\ [][NextLog]_vars

(* ------------------------------- main --------------------------------- *)
\* case 2 of main: printBlockchain(bc.chain), with no bc.mu.Lock(); the model
\* lets main take this choice once
PrintBlockchain ==
    /\ ~crashed
    /\ shown = <<>>
    /\ shown' = chain
    /\ UNCHANGED <<chain, mu, now, pc, arg, callLen, mine, nb, tasks, pending, log,
                   crashed>>

(* SpecRead: main at its menu while the generator goroutine calls AddBlock.   *)
NextRead ==
    \/ AddBlockStep(Generator)
    \/ PrintBlockchain

SpecRead == Init /\ [][NextRead]_vars

(* SpecBatch: the generator goroutine alone, calling AddBlock once with a     *)
(* longer batch: the batch of the end-to-end example, every ordering of      *)
(* three distinct samples and two orderings of four.                         *)
ExampleBatch == <<F(1), F(2), F(3), F(4), F(100)>>

Orderings(base) ==
    {[i \in 1..Len(base) |-> base[p[i]]] : p \in Permutations(1..Len(base))}

LongBatches ==
    {ExampleBatch} \cup Orderings(<<F(0), F(1), F(3)>>)
                   \cup {<<F(1), F(0), F(3), F(4)>>, <<F(0), F(1), F(4), F(3)>>}

\* the generator enters AddBlock with one of the longer batches
CallBatch(c) ==
    /\ ~crashed
    /\ pc[c] \in {"idle", "done"}
    /\ Len(chain) + Cardinality(InFlight) < BatchChain
    /\ callLen' = [callLen EXCEPT ![c] = Len(chain)]
    /\ mine' = [mine EXCEPT ![c] = 0]
    /\ pc' = [pc EXCEPT ![c] = "lock"]
    /\ UNCHANGED <<chain, mu, now, arg, nb, tasks, pending, log, crashed, shown>>

\* bc.mu.Lock() returns in a call that passed one of the longer batches
LockBatch(c) ==
    /\ ~crashed
    /\ pc[c] = "lock"
    /\ CanLock(c)
    /\ mu' = c
    /\ \E values \in LongBatches : arg' = [arg EXCEPT ![c] = values]
    /\ pc' = [pc EXCEPT ![c] = "new"]
    /\ UNCHANGED <<chain, now, callLen, mine, nb, tasks, pending, log, crashed, shown>>

AddBatchStep(c) ==
    \/ CallBatch(c)
    \/ LockBatch(c)
    \/ Construct(c)
    \/ MeanStep(c)
    \/ MedianStep(c)
    \/ BandStep(c)
    \/ OutStep(c)
    \/ Wait(c)
    \/ Mark(c)
    \/ Hash(c)
    \/ AppendBlock(c)
    \/ Unlock(c)

NextBatch == AddBatchStep(Generator)

SpecBatch == Init /\ [][NextBatch]_vars

(* ------------------------------ the claims ---------------------------- *)
InLock == {"new", "stats", "mark", "hash", "append"}

\* the fields of a block other than its fingerprint
Frame(block) == [block EXCEPT !.Hash = ""]

HasOutliers(block) == Len(block.Outliers) > 0

Count(s, v) == Cardinality({i \in 1..Len(s) : s[i] = v})

\* the same samples, each as often, in whatever order
SameSamples(s, t) == Len(s) = Len(t) /\ \A v \in Samples : Count(s, v) = Count(t, v)

\* C1: two calls of AddBlock with non-empty batches that were both issued on a
\* chain of length L and have both returned leave a chain of length L+2 whose
\* two new blocks have the indices L and L+1, one block per call; while a call
\* holds the lock no other call adds a block, and the block a call adds is its
\* own newBlock, built from its own batch.
TwoAppendsSerialize ==
    /\ \A c \in Callers, d \in Callers :
          (c # d /\ pc[c] \in InLock \cup {"unlock"}) => pc[d] \notin InLock \cup {"unlock"}
    /\ \A c \in Callers : pc[c] \in InLock \cup {"unlock"} => mu = c
    /\ \A c \in Callers, d \in Callers :
          (c # d /\ pc[c] = "done" /\ pc[d] = "done" /\ callLen[c] = callLen[d])
          => /\ Len(chain) = callLen[c] + 2
             /\ {mine[c], mine[d]} = {callLen[c] + 1, callLen[c] + 2}
             /\ {chain[mine[c]].Index, chain[mine[d]].Index}
                   = {callLen[c], callLen[c] + 1}
    /\ \A c \in Callers :
          /\ pc[c] \in InLock \ {"new"} => nb[c].Index = Len(chain)
          /\ pc[c] = "unlock"
             => /\ mine[c] = Len(chain)
                /\ chain[mine[c]] = nb[c]
                /\ SameSamples(nb[c].Values, arg[c])

\* C1 witness: both callers entered AddBlock on the same chain and both returned
TwoAppendsReturned ==
    /\ \A c \in Callers : pc[c] = "done"
    /\ \A c \in Callers, d \in Callers : callLen[c] = callLen[d]
    /\ Len(chain) = 3

\* C2: the block at position i of the chain (genesis at position 1) has index i-1
IndexIsPosition == \A i \in 1..Len(chain) : chain[i].Index = i - 1

\* C2 witness: two blocks were appended after the genesis block
TwoBlocksAppended == Len(chain) = 3 /\ chain[3].Index = 2

\* C3: prev_fingerprint of every non-genesis block is the digest its predecessor
\* held when AddBlock read it, never the sentinel a re-marking put there
PrevHashIsDigest ==
    /\ \A i \in 2..Len(chain) :
          /\ chain[i].PrevHash = calculateHash(chain[i - 1])
          /\ chain[i].PrevHash # OutlierBlockHash
    /\ \A c \in Callers :
          pc[c] \in InLock \ {"new"}
          => nb[c].PrevHash = calculateHash(chain[Len(chain)])

\* C3 witness: the predecessor was re-marked after its successor captured the digest
PrevRemarked ==
    /\ Len(chain) = 3
    /\ chain[2].Hash = OutlierBlockHash
    /\ chain[3].PrevHash = calculateHash(chain[2])

\* C4 (as claimed): once the AddBlock of a block with outliers has returned, every
\* block with outliers, the new one included, carries the sentinel and every
\* block without outliers carries its digest
AllOutlierBlocksMarked ==
    \A c \in Callers :
        (pc[c] = "done" /\ mine[c] = Len(chain) /\ HasOutliers(chain[mine[c]]))
        => \A i \in 1..Len(chain) :
              IF HasOutliers(chain[i])
              THEN chain[i].Hash = OutlierBlockHash
              ELSE chain[i].Hash = calculateHash(chain[i])

\* C5 (as claimed): the outliers of every non-genesis block are the values of the
\* block outside the band stored in the block, in the order of the values
OutliersMatchBand ==
    \A i \in 2..Len(chain) :
        chain[i].Outliers
            = calculateOutliers(chain[i].Values, chain[i].TwoSDLower, chain[i].TwoSDUpper)

\* C6 (as claimed): AddBlock with an empty batch is rejected before any statistic
\* is dispatched, and the process stays usable
EmptyBatchRejected ==
    /\ ~crashed
    /\ \A c \in Callers : pc[c] \in InLock \ {"new"} => Len(arg[c]) > 0

\* C7 (as claimed): no step writes the fingerprint of a block that is in the chain
HashWrittenOnce ==
    [][\A i \in 1..Len(chain) : chain'[i].Hash = chain[i].Hash]_vars

\* C7 (amended): a step changes the fingerprint of a block that is in the chain
\* only from its digest to the sentinel and only when the block has outliers; the
\* fingerprint of a block without outliers is never written again
HashOnlyRemarked ==
    [][\A i \in 1..Len(chain) :
          chain'[i].Hash # chain[i].Hash
          => /\ chain'[i].Hash = OutlierBlockHash
             /\ HasOutliers(chain[i])
             /\ chain[i].Hash # OutlierBlockHash]_vars

\* C7 witness: a block in the chain had its fingerprint overwritten with the sentinel
SomeBlockRemarked == \E i \in 1..Len(chain) : chain[i].Hash = OutlierBlockHash

\* C8: every step keeps the chain a prefix of what it becomes, fingerprints aside;
\* the chain grows by exactly one block, and only in the append of an AddBlock
AppendOnly ==
    [][/\ Len(chain') \in {Len(chain), Len(chain) + 1}
       /\ \A i \in 1..Len(chain) : Frame(chain'[i]) = Frame(chain[i])
       /\ Len(chain') = Len(chain) + 1
          <=> \E c \in Callers : pc[c] = "append" /\ pc'[c] = "unlock"]_vars

\* C8 witness: an AddBlock re-marked an older block and appended its own
OlderBlockKept == Len(chain) = 3 /\ chain[2].Hash = OutlierBlockHash /\ Len(chain[2].Values) = 2

\* C9: the chain starts as the genesis block alone (no caller has entered
\* AddBlock yet), and the genesis block always is the block NewBlockchain built:
\* index 0, no values, zero statistics, no outliers, empty prev_fingerprint and
\* the digest of these as fingerprint, never the sentinel
GenesisIntact ==
    /\ Len(chain) >= 1
    /\ (\A c \in Callers : pc[c] = "idle") => Len(chain) = 1
    /\ chain[1].Index = 0
    /\ chain[1].Values = <<>>
    /\ chain[1].Mean = 0 /\ chain[1].Median = 0
    /\ chain[1].TwoSDLower = 0 /\ chain[1].TwoSDUpper = 0
    /\ chain[1].Outliers = <<>>
    /\ chain[1].PrevHash = ""
    /\ chain[1].Hash = calculateHash(chain[1])
    /\ chain[1].Hash # OutlierBlockHash

\* C9 witness: a re-marking that hit another block went over the genesis block
GenesisSurvivedMarking ==
    /\ Len(chain) = 3
    /\ chain[2].Hash = OutlierBlockHash
    /\ chain[1].Hash = calculateHash(chain[1])

\* C10 (as claimed): the mean stored in a block lies within the band stored in it
MeanWithinBand ==
    \A i \in 1..Len(chain) :
        /\ chain[i].TwoSDLower <= chain[i].Mean
        /\ chain[i].Mean <= chain[i].TwoSDUpper

\* where AddBlock is once calculateBlockStats has returned
AfterStats == {"mark", "hash", "append", "unlock"}

Ascending(s) == SortSeq(s, LAMBDA a, b : a < b)

\* the middle element of an odd count, the average of the two central ones of an even
Middle(s) ==
    IF Len(s) % 2 = 1 THEN s[(Len(s) + 1) \div 2]
    ELSE (s[Len(s) \div 2] + s[Len(s) \div 2 + 1]) \div 2

\* C11: for every non-empty batch the median AddBlock stores is the middle of the
\* batch sorted ascending (odd count: the middle element; even count: the average
\* of the two central elements), whatever the order the batch was passed in, so
\* blocks built from the same samples hold the same median
MedianOfAscendingBatch ==
    /\ \A c \in Callers :
          (pc[c] \in AfterStats /\ Len(arg[c]) > 0)
          => /\ nb[c].Median = Middle(Ascending(arg[c]))
             /\ \A i \in 2..Len(chain) :
                   Ascending(chain[i].Values) = Ascending(arg[c])
                   => chain[i].Median = nb[c].Median
    /\ \A i \in 2..Len(chain) : chain[i].Median = Middle(Ascending(chain[i].Values))

\* C11 witness: the batch [3, 0, 1], whose middle element as passed is 0, was
\* appended with the median 1
UnsortedBatchMedian ==
    \E c \in Callers :
        /\ pc[c] = "unlock"
        /\ arg[c] = <<F(3), F(0), F(1)>>
        /\ chain[mine[c]].Median = F(1)

\* C12 (as claimed): AddBlock([1,2,3,4,100]) yields a block with mean 22, an upper
\* bound strictly between 4 and 100, a lower bound below 1 and the outliers [100],
\* which the next re-marking turns into a block carrying the sentinel
ExampleHasOutlierHundred ==
    \A c \in Callers :
        (pc[c] = "unlock" /\ arg[c] = ExampleBatch)
        => /\ chain[mine[c]].Mean = F(22)
           /\ F(4) < chain[mine[c]].TwoSDUpper
           /\ chain[mine[c]].TwoSDUpper < F(100)
           /\ chain[mine[c]].TwoSDLower < F(1)
           /\ chain[mine[c]].Outliers = <<F(100)>>
           /\ markBlocksWithOutliers(chain)[mine[c]].Hash = OutlierBlockHash

\* C12 (amended): AddBlock([1,2,3,4,100]) yields a block with mean 22 and the band
\* mean -/+ 2 population standard deviations, whose lower bound is below 1 and
\* whose upper bound is above 100: 100 alone is never an outlier.  The outliers
\* are empty, or the whole batch when the outlier goroutine read the band before
\* it was written; the block is appended with its digest and the next re-marking
\* writes the sentinel exactly when the outliers are not empty
ExampleBandHoldsHundred ==
    \A c \in Callers :
        (pc[c] \in AfterStats /\ arg[c] = ExampleBatch)
        => /\ nb[c].Mean = F(22)
           /\ <<nb[c].TwoSDLower, nb[c].TwoSDUpper>> = calculateTwoSDRange(ExampleBatch)
           /\ nb[c].TwoSDLower < F(1)
           /\ nb[c].TwoSDUpper > F(100)
           /\ nb[c].Outliers \in {<<>>, ExampleBatch}
           /\ pc[c] = "unlock"
              => /\ chain[mine[c]] = nb[c]
                 /\ chain[mine[c]].Hash = calculateHash(chain[mine[c]])
                 /\ markBlocksWithOutliers(chain)[mine[c]].Hash = OutlierBlockHash
                    <=> chain[mine[c]].Outliers = ExampleBatch

\* C12 witness: the block of [1,2,3,4,100] was appended with no outlier, its upper
\* bound above 100
ExampleAppendedNoOutlier ==
    \E c \in Callers :
        /\ pc[c] = "unlock"
        /\ arg[c] = ExampleBatch
        /\ chain[mine[c]].Outliers = <<>>
        /\ chain[mine[c]].TwoSDUpper > F(100)

\* a chain as it is between two complete calls of AddBlock: every block but the
\* last carries the sentinel if it has outliers and its digest if not, and the
\* last block, which no later call has re-marked, carries its digest
CompleteChain(c) ==
    \A i \in 1..Len(c) :
        c[i].Hash = IF i < Len(c) /\ HasOutliers(c[i])
                    THEN OutlierBlockHash
                    ELSE calculateHash(c[i])

\* C13 (as claimed): the chain main prints is a chain as it is between two
\* complete calls of AddBlock, never one in which a call has re-marked an older
\* block and not yet appended its own
ReaderSeesCompleteChain == shown # <<>> => CompleteChain(shown)

\* C14 (as claimed): the mean and the band goroutine never read the batch half
\* sorted: once the four goroutines are done the stored mean is the arithmetic
\* mean of the batch and the stored band is that mean -/+ 2 population standard
\* deviations of the batch
StatsOfWholeBatch ==
    \A c \in Callers :
        (pc[c] \in AfterStats /\ Len(arg[c]) > 0)
        => /\ nb[c].Mean = calculateMean(arg[c])
           /\ <<nb[c].TwoSDLower, nb[c].TwoSDUpper>> = calculateTwoSDRange(arg[c])

\* C15: the fingerprint of newBlock is written only when the four statistic
\* goroutines are done, and every block of the chain whose fingerprint is not the
\* sentinel carries the digest of its own current fields
HashOfFinalFields ==
    /\ \A c \in Callers :
          /\ pc[c] \in {"stats", "mark", "hash"} => nb[c].Hash = ""
          /\ pc[c] \in AfterStats
             => /\ tMean[c].pc = "done" /\ tMedian[c].pc = "done"
                /\ tBand[c].pc = "done" /\ tOut[c].pc = "done"
          /\ pc[c] \in {"append", "unlock"} => nb[c].Hash = calculateHash(nb[c])
    /\ \A i \in 1..Len(chain) :
          chain[i].Hash # OutlierBlockHash => chain[i].Hash = calculateHash(chain[i])

\* C15 witness: a block whose statistics the goroutines wrote in a race (the mean
\* is not the mean of its values) is in the chain under the digest of its fields
RacedBlockHashed ==
    \E i \in 2..Len(chain) :
        /\ chain[i].Mean # calculateMean(chain[i].Values)
        /\ chain[i].Hash = calculateHash(chain[i])

\* C16: no partial block is in the chain: every block of the chain has a
\* fingerprint; the newBlock of a call is not in the chain while its statistics
\* and its fingerprint are being computed, and when it is in the chain (after the
\* append, the last step before the call returns) its four goroutines are done
\* and its fingerprint is set
NoPartialBlock ==
    /\ \A i \in 1..Len(chain) : chain[i].Hash # ""
    /\ \A c \in Callers :
          /\ pc[c] \in {"stats", "mark", "hash", "append"}
             => \A i \in 1..Len(chain) : chain[i].Index # nb[c].Index
          /\ pc[c] = "unlock"
             => /\ chain[Len(chain)] = nb[c]
                /\ \A i \in 1..(Len(chain) - 1) : chain[i].Index # nb[c].Index
                /\ nb[c].Hash # ""
                /\ tMean[c].pc = "done" /\ tMedian[c].pc = "done"
                /\ tBand[c].pc = "done" /\ tOut[c].pc = "done"

\* C16 witness: a call has appended its finished block as the third of the chain
\* and has not yet returned
FinishedBlockAppended ==
    \E c \in Callers :
        /\ pc[c] = "unlock"
        /\ Len(chain) = 3
        /\ chain[3] = nb[c]
        /\ tOut[c].pc = "done"

\* C17 (as claimed), in its finite form: an AddBlock that waits for the lock is
\* never left waiting for a holder that cannot release it.  Every step of the
\* program needs the process alive, so in a state that violates this the waiting
\* call, whatever its batch (nothing has read it yet), never returns.
WaitingAppendProceeds ==
    \A c \in Callers : (pc[c] = "lock" /\ mu # 0) => ~crashed

\* the block the four computations give when they run one after the other, in the
\* order mean, median, band, outliers, on the block as AddBlock built it
SerialStats(block) ==
    LET mean == calculateMean(block.Values)
        values == Ascending(block.Values)
        band == calculateTwoSDRange(values)
    IN  [block EXCEPT !.Mean = mean,
                      !.Values = values,
                      !.Median = MedianOfSorted(values),
                      !.TwoSDLower = band[1],
                      !.TwoSDUpper = band[2],
                      !.Outliers = calculateOutliers(values, band[1], band[2])]

SerialBlock(prevBlock, ts, values) ==
    LET serial == SerialStats(NewBlock(prevBlock, ts, values))
    IN  [serial EXCEPT !.Hash = calculateHash(serial)]

\* C18 (as claimed): however the four goroutines are scheduled, the block AddBlock
\* appends has the mean, median, band, outliers and fingerprint of the serial run
\* mean, median, band, outliers on the same chain, batch and timestamp
ScheduleIndependent ==
    \A c \in Callers :
        (pc[c] = "unlock" /\ Len(arg[c]) > 0)
        => chain[mine[c]]
              = SerialBlock(chain[mine[c] - 1], chain[mine[c]].Timestamp, arg[c])

\* C19 (as claimed): when AddBlock(values) is about to return, the values of the
\* new block are the batch in the order it was passed, and so is the caller's
\* own slice (nb.Values is its backing array)
ValuesKeptInOrder ==
    \A c \in Callers :
        pc[c] = "unlock"
        => /\ chain[mine[c]].Values = arg[c]
           /\ nb[c].Values = arg[c]

\* C20 (as claimed): every record in blockchain.log is the block as its AddBlock
\* finalized it: its fingerprint is the digest of its fields, never the sentinel
LoggedAsFinalized ==
    \A k \in 1..Len(log) :
        /\ log[k].Hash # OutlierBlockHash
        /\ log[k].Hash = calculateHash(log[k])

====
